---------------------------- MODULE Spec2Model ----------------------------
(***************************************************************************)
(* IndexedDBInterface (src/src/index.ts): an ordered key-value store kept  *)
(* in one IndexedDB object store.  Every record is an Entry                *)
(* {index, key, value} stored under an auto-incremented primary key, with  *)
(* the unique indexes 'indexes' (on index) and 'keys' (on key).            *)
(*                                                                         *)
(* Each public method is a chain of Engine requests; every onsuccess       *)
(* callback of the source is one action here.  The Engine is modelled as   *)
(* IndexedDB behaves: add/put serialise the value when they are called,    *)
(* get deserialises into a new object, transactions whose scopes overlap   *)
(* run in the order they were created, the key generator only grows and a  *)
(* request that breaks a unique index aborts its transaction.              *)
(***************************************************************************)
EXTENDS Integers, Sequences, FiniteSets, TLC

\* ------------------------------------------------------------------ bounds
\* Largest primary key the key generator hands out in the free-running
\* specifications (set is not called once nextPk exceeds it).
MaxPk == 4
\* Same cap for the specification with object values.
MaxPkVal == 2
\* Number of operation slots: operations whose transaction is still live.
NumSlots == 2
\* Number of heap cells for caller-visible objects.
MaxObj == 3

Slots == 1..NumSlots
ObjIds == 1..MaxObj
Instances == {1, 2}
\* Instances with another setup: 3 has its own name, 4 has the name of 3 and
\* the dbName of 1.
OtherInstances == {3, 4}
AllInstances == Instances \cup OtherInstances

\* ------------------------------------------------------------------ values
\* A JavaScript value: undefined, a number, a reference to a heap object,
\* the structured-serialised form of an object, a string (a key), the Ok
\* marker, or an Error.
V(tag, n, s) == [tag |-> tag, n |-> n, s |-> s]
Undefined == V("undefined", 0, "")
Null == V("null", 0, "")
Num(x) == V("num", x, "")
Ref(i) == V("ref", i, "")
Obj(c) == V("obj", c, "")
Str(k) == V("str", 0, k)
OkValue == V("ok", 0, "")
DeletedError == V("error", 1, "This Storage was deleted!")
ConstraintError == V("error", 2, "ConstraintError")

\* Contents an object can have ({c: [40, 42]}, {c: [30]}); 0 marks a free cell.
Contents == {1, 2}
Free == 0

IsRef(v) == v.tag = "ref"

\* What toEqual compares: the content behind a reference.
Deep(v, h) == IF IsRef(v) THEN Obj(h[v.n]) ELSE v

\* ------------------------------------------------------------------- state
VARIABLES
  records,    \* the object store: set of [pk, index, key, value]
  nextPk,     \* the store's key generator (autoIncrement)
  db,         \* "ready": database with the object store and its indexes,
              \* "absent": no database, "empty": database without the store
  isDeleted,  \* isDeleted[i]: the flag of instance i
  ops,        \* ops[s]: the operation in slot s
  txQueue,    \* live transactions (slots), in the order they were created
  heap,       \* heap[o]: content of object o, Free when unallocated
  held,       \* references the caller holds
  order,      \* history: live keys in the order their records were created
  expect,     \* history: expect[k] is the value of the last set(k, v) as it
              \* was when set was called, Undefined after remove or clear
  tainted,    \* history: keys whose value object was mutated while the set
              \* storing it was still pending
  plan,       \* the calls still to be issued in the scripted run, or <<>>
  mounted,    \* the dbName of the database that records, nextPk and db (and
              \* the history of its store) describe
  parked,     \* the other database and the history of its store
  overlay     \* overlay[i]: the default values of instance i

engine == <<records, nextPk, db>>
outside == <<mounted, parked, overlay>>
caller == <<heap, held>>
history == <<order, expect, tainted>>
vars == <<records, nextPk, db, isDeleted, ops, txQueue, heap, held, order,
          expect, tainted, plan, mounted, parked, overlay>>

AllKeys == {"value", "value2", "value3", "value4", "value5", "value6"}

NoEntry == [pk |-> 0, index |-> 0 - 1, key |-> "", value |-> Undefined]
NoOp == [kind |-> "none", mode |-> "none", inst |-> 0, key |-> "",
         arg |-> Undefined,
         pc |-> "idle", promise |-> "none", result |-> Undefined,
         calls |-> 0, pk |-> 0, entry |-> NoEntry, undo |-> {}, undoPk |-> 0,
         out |-> <<>>]

\* ------------------------------------------------------- Engine primitives
\* Faulty variant: the lookup ignores the key and yields the first record.
KeysGetKeyFirst(key) ==
  IF records = {} THEN 0
  ELSE (CHOOSE r \in records : \A q \in records : r.pk <= q.pk).pk

\* Faulty variant: the lookup does not tell 'Value' from 'value'.
KeysGetKeyFolded(key) ==
  LET Fold(k) == IF k = "Value" THEN "value" ELSE k
  IN IF \E r \in records : Fold(r.key) = Fold(key)
     THEN (CHOOSE r \in records : Fold(r.key) = Fold(key)).pk
     ELSE 0

\* IDBIndex 'keys'.getKey(key): the primary key of the record with that key,
\* 0 standing for undefined.
KeysGetKey(key) ==
  IF \E r \in records : r.key = key
  THEN (CHOOSE r \in records : r.key = key).pk
  ELSE 0

\* Faulty variant: the ordinal is looked up among the primary keys, which
\* start at 1.
IndexesGetKeyByPk(index) ==
  IF \E r \in records : r.pk = index + 1 THEN index + 1 ELSE 0

\* IDBIndex 'indexes'.getKey(index).
IndexesGetKey(index) ==
  IF \E r \in records : r.index = index
  THEN (CHOOSE r \in records : r.index = index).pk
  ELSE 0

\* IDBObjectStore.get(pk).
StoreGet(pk) == CHOOSE r \in records : r.pk = pk

\* Faulty variant: the cursor opened in direction 'next' yields the smallest index.
FirstObjectIndex ==
  IF records = {}
  THEN 0 - 1
  ELSE (CHOOSE r \in records : \A q \in records : r.index <= q.index).index

\* index.openCursor(null, 'prev') on 'indexes': the entry with the largest
\* index; lastObjectIndex is its index, or -1 when the cursor is null.
LastObjectIndex ==
  IF records = {}
  THEN 0 - 1
  ELSE (CHOOSE r \in records : \A q \in records : q.index <= r.index).index

\* Faulty variant: an open lower bound, lowerBound(lower, true).
CursorAbove(lower) ==
  IF \E r \in records : r.pk > lower
  THEN (CHOOSE r \in records :
          r.pk > lower /\ \A q \in records : q.pk > lower => r.pk <= q.pk).pk
  ELSE 0

\* Faulty variant: the cursor runs in direction 'prev', from the largest
\* primary key.
CursorAtLast(lower) ==
  IF \E r \in records : r.pk >= lower
  THEN (CHOOSE r \in records :
          r.pk >= lower /\ \A q \in records : q.pk >= lower => r.pk >= q.pk).pk
  ELSE 0

\* objectStore.openCursor(IDBKeyRange.lowerBound(lower, false)) and
\* cursor.continue(): the first record whose primary key is >= lower, and
\* then the next one above the current key; 0 stands for a null cursor.
CursorAt(lower) ==
  IF \E r \in records : r.pk >= lower
  THEN (CHOOSE r \in records :
          r.pk >= lower /\ \A q \in records : q.pk >= lower => r.pk <= q.pk).pk
  ELSE 0

\* The unique indexes: a record may be written under primary key pk only if
\* no other record has its index or its key.
Unique(entry, pk) ==
  \A r \in records :
    r.pk # pk => r.index # entry.index /\ r.key # entry.key

\* Faulty variant: the value is kept as it is, a reference staying a reference.
SerializeShared(v, h) == v

\* Structured clone for storage: add and put serialise when they are called.
Serialize(v, h) == Deep(v, h)

\* The lowest free heap cell, 0 when the heap is full.
FreshObj(h) ==
  IF \E o \in ObjIds : h[o] = Free
  THEN CHOOSE o \in ObjIds : h[o] = Free /\ \A p \in ObjIds : h[p] = Free => o <= p
  ELSE 0

\* ------------------------------------------------------------ transactions
\* The mode of the transaction each method opens.
Mode(kind) ==
  IF kind \in {"get", "size", "key", "entries"} THEN "readonly" ELSE "readwrite"

Pos(s) == CHOOSE i \in 1..Len(txQueue) : txQueue[i] = s

InQueue(s) == \E i \in 1..Len(txQueue) : txQueue[i] = s

\* Faulty variant: transactions run whenever they have a request, whatever
\* was created before them.
CanRunUnordered(s) == InQueue(s)

\* A transaction runs its requests once every transaction created before it
\* that overlaps it has finished: read-only ones overlap no other read-only.
CanRun(s) ==
  /\ InQueue(s)
  /\ \A i \in 1..(Pos(s) - 1) :
       ops[txQueue[i]].mode = "readonly" /\ ops[s].mode = "readonly"

Remove(q, s) == SelectSeq(q, LAMBDA x : x # s)

Pending == \E s \in Slots : ops[s].promise = "pending"


\* ------------------------------------------------------------- the promise
\* resolve and reject settle the promise once; later calls change nothing.
Resolve(op, v) ==
  IF op.promise = "pending"
  THEN [op EXCEPT !.promise = "resolved", !.result = v]
  ELSE op

Reject(op, e) ==
  IF op.promise = "pending"
  THEN [op EXCEPT !.promise = "rejected", !.result = e]
  ELSE op

\* One more Engine call (open, deleteDatabase, transaction request).
Called(op) == [op EXCEPT !.calls = @ + 1]

\* ------------------------------------------------------------ checkStorage
\* Faulty variant: checkStorage never throws.
CheckStorageOff(inst) == TRUE

\* TRUE when checkStorage returns, FALSE when it throws.
CheckStorage(inst) == ~isDeleted[inst]

\* ---------------------------------------------------------------- the setup
\* The setup each instance was created with; dbName is "" when not given.
\* Instances 1 and 2 share a name, 3 has another one, 4 has the name of 3 and
\* names the database of 1.
Setup(inst) ==
  CASE inst \in Instances -> [name |-> "settings", dbName |-> ""]
    [] inst = 3 -> [name |-> "settings2", dbName |-> ""]
    [] inst = 4 -> [name |-> "settings2", dbName |-> "settings"]

\* this.storageName = setup.name
StorageName(inst) == Setup(inst).name

\* Faulty variant: every instance opens the same database.
DbNameShared(inst) == "settings"

\* this.dbName = setup.dbName ?? this.storageName
DbName(inst) ==
  IF Setup(inst).dbName = "" THEN StorageName(inst) ELSE Setup(inst).dbName

DbNames == {"settings", "settings2"}

\* The object stores of database d: initAsync creates a store only in
\* onupgradeneeded, that is for the instance that creates the database, and
\* that is the instance whose name is the database's; an instance initialised
\* on a database that exists at version 1 creates nothing.
ObjectStoreNames(d) == {d}

\* db.transaction(this.storageName, ...) finds the store.
HasStore(inst) == StorageName(inst) \in ObjectStoreNames(DbName(inst))

\* ---------------------------------------------------------------- the call
FirstPc(kind) == IF kind = "deleteStorage" THEN "deleteDB" ELSE "open"

SeqRange(q) == {q[i] : i \in 1..Len(q)}

\* What the call means for a caller that awaits every operation.
OrderAfter(kind, key) ==
  CASE kind = "set" -> IF key \in SeqRange(order) THEN order
                       ELSE Append(order, key)
    [] kind = "remove" -> SelectSeq(order, LAMBDA k : k # key)
    [] kind \in {"clear", "deleteStorage"} -> <<>>
    [] OTHER -> order

ExpectAfter(kind, key, arg) ==
  CASE key \notin AllKeys /\ kind \in {"set", "remove"} -> expect
    [] kind = "set" -> [expect EXCEPT ![key] = Deep(arg, heap)]
    [] kind = "remove" -> [expect EXCEPT ![key] = Undefined]
    [] kind \in {"clear", "deleteStorage"} -> [k \in AllKeys |-> Undefined]
    [] OTHER -> expect

TaintedAfter(kind, key) ==
  CASE kind \in {"set", "remove"} -> tainted \ {key}
    [] kind \in {"clear", "deleteStorage"} -> {}
    [] OTHER -> tainted

\* What the Engine still needs of an operation whose promise the caller has
\* consumed: its transaction and, for a set, the add it has yet to carry out.
Consumed(op) ==
  IF op.pc = "add"
  THEN [NoOp EXCEPT !.kind = "consumed", !.mode = op.mode, !.pc = op.pc,
                    !.entry = op.entry, !.undo = op.undo, !.undoPk = op.undoPk]
  ELSE [NoOp EXCEPT !.kind = "consumed", !.mode = op.mode, !.pc = op.pc]

\* The next call reuses the slots whose transaction has finished; of the
\* other settled operations only the Engine's part is left.
Swept ==
  [t \in Slots |-> IF ops[t].promise = "pending" THEN ops[t]
                   ELSE IF ops[t].pc \in {"idle", "done"} THEN NoOp
                   ELSE Consumed(ops[t])]

FreeSlot ==
  IF \E t \in Slots : Swept[t].kind = "none"
  THEN CHOOSE t \in Slots :
         Swept[t].kind = "none" /\ \A u \in Slots : Swept[u].kind = "none" => t <= u
  ELSE 0

\* Faulty variant: deleteStorageAsync does not call checkStorage.
CallDeleteUnchecked(inst, kind, key, arg) ==
  /\ DbName(inst) = mounted
  /\ FreeSlot # 0
  /\ LET op == [NoOp EXCEPT !.kind = kind, !.mode = Mode(kind), !.inst = inst,
                            !.key = key, !.arg = arg, !.promise = "pending"]
     IN IF CheckStorage(inst) \/ kind = "deleteStorage"
        THEN /\ ops' = [Swept EXCEPT ![FreeSlot] =
                          Called([op EXCEPT !.pc = FirstPc(kind)])]
             /\ order' = OrderAfter(kind, key)
             /\ expect' = ExpectAfter(kind, key, arg)
             /\ tainted' = TaintedAfter(kind, key)
        ELSE /\ ops' = [Swept EXCEPT ![FreeSlot] =
                          Reject([op EXCEPT !.pc = "done"], DeletedError)]
             /\ UNCHANGED history
  /\ UNCHANGED <<outside, engine, isDeleted, txQueue, caller>>

\* The body of an async method up to its first Engine call: checkStorage,
\* then window.indexedDB.open (deleteDatabase for deleteStorageAsync) inside
\* the promise executor.  A throw of checkStorage rejects the promise the
\* async function returns and nothing else runs.  The call is made on the
\* storage whose database is the mounted one.
Call(inst, kind, key, arg) ==
  /\ DbName(inst) = mounted
  /\ FreeSlot # 0
  /\ LET op == [NoOp EXCEPT !.kind = kind, !.mode = Mode(kind), !.inst = inst,
                            !.key = key, !.arg = arg, !.promise = "pending"]
     IN IF CheckStorage(inst)
        THEN /\ ops' = [Swept EXCEPT ![FreeSlot] =
                          Called([op EXCEPT !.pc = FirstPc(kind)])]
             /\ order' = OrderAfter(kind, key)
             /\ expect' = ExpectAfter(kind, key, arg)
             /\ tainted' = TaintedAfter(kind, key)
        ELSE /\ ops' = [Swept EXCEPT ![FreeSlot] =
                          Reject([op EXCEPT !.pc = "done"], DeletedError)]
             /\ UNCHANGED history
  /\ UNCHANGED <<outside, engine, isDeleted, txQueue, caller>>

\* ------------------------------------------------------ openRequest.onsuccess
\* The request each method issues first inside its transaction.
FirstRequest(kind) ==
  CASE kind \in {"get", "set", "remove"} -> "getKey"
    [] kind = "clear" -> "clear"
    [] kind = "size" -> "count"
    [] kind = "key" -> "idxGetKey"
    [] kind = "entries" -> "scan"

\* open(dbName, 1) succeeds; the handler opens a transaction on storageName
\* and issues its first request.  None of the data methods handles
\* onupgradeneeded, so on a database that does not exist open creates one
\* without the object store; when the database has no store of this name
\* db.transaction throws inside the handler and the promise is never settled.
OpenSuccess(s) ==
  /\ ops[s].pc = "open"
  /\ IF db = "ready" /\ HasStore(ops[s].inst)
     THEN /\ ops' = [ops EXCEPT ![s] =
                       Called(Called([@ EXCEPT !.pc = FirstRequest(ops[s].kind)]))]
          /\ txQueue' = Append(txQueue, s)
          /\ db' = db
     ELSE /\ ops' = [ops EXCEPT ![s] = Called([@ EXCEPT !.pc = "stuck"])]
          /\ txQueue' = txQueue
          /\ db' = IF db = "absent" THEN "empty" ELSE db
  /\ UNCHANGED <<outside, records, nextPk, isDeleted, caller, history, plan>>

\* The operation once its transaction is over: only the promise is left.
Finished(op) ==
  [op EXCEPT !.pc = "done", !.entry = NoEntry, !.undo = {}, !.undoPk = 0]

\* transaction.oncomplete: the transaction has no request left; db.close().
TxComplete(s) ==
  /\ ops[s].pc = "commit"
  /\ CanRun(s)
  /\ ops' = [ops EXCEPT ![s] = Finished(@)]
  /\ txQueue' = Remove(txQueue, s)
  /\ UNCHANGED <<outside, engine, isDeleted, caller, history, plan>>

\* --------------------------------------------------------------- getItemAsync
\* Faulty variant: the value of an earlier read with the same content is handed out
\* again (a cache of deserialised values).
DeserializeCached(v, h) ==
  IF v.tag = "obj" /\ \E o \in ObjIds : h[o] = v.n
  THEN [value |-> Ref(CHOOSE o \in ObjIds : h[o] = v.n), heap |-> h]
  ELSE IF v.tag = "obj"
  THEN [value |-> Ref(FreshObj(h)), heap |-> [h EXCEPT ![FreshObj(h)] = v.n]]
  ELSE [value |-> v, heap |-> h]

\* Structured deserialisation: a stored object comes back as a new object;
\* the result and the heap that holds it.
Deserialize(v, h) ==
  IF v.tag = "obj"
  THEN [value |-> Ref(FreshObj(h)), heap |-> [h EXCEPT ![FreshObj(h)] = v.n]]
  ELSE [value |-> v, heap |-> h]

\* Faulty variant: a key without a record reads as null.
GetKeySuccessNull(s) ==
  /\ ops[s].kind = "get" /\ ops[s].pc = "getKey"
  /\ CanRun(s)
  /\ LET pk == KeysGetKey(ops[s].key)
     IN ops' = [ops EXCEPT ![s] =
                  IF pk # 0
                  THEN Called([@ EXCEPT !.pc = "getValue", !.pk = pk])
                  ELSE Resolve([@ EXCEPT !.pc = "commit"], Null)]
  /\ UNCHANGED <<outside, engine, isDeleted, txQueue, caller, history, plan>>

\* getKeyRequest.onsuccess of getItemAsync.
GetKeySuccess(s) ==
  /\ ops[s].kind = "get" /\ ops[s].pc = "getKey"
  /\ CanRun(s)
  /\ LET pk == KeysGetKey(ops[s].key)
     IN ops' = [ops EXCEPT ![s] =
                  IF pk # 0
                  THEN Called([@ EXCEPT !.pc = "getValue", !.pk = pk])
                  ELSE Resolve([@ EXCEPT !.pc = "commit"], Undefined)]
  /\ UNCHANGED <<outside, engine, isDeleted, txQueue, caller, history, plan>>

\* getValueRequest.onsuccess of getItemAsync: resolve(result.value).
GetValueSuccess(s) ==
  /\ ops[s].kind = "get" /\ ops[s].pc = "getValue"
  /\ CanRun(s)
  /\ FreshObj(heap) # 0
  /\ LET got == Deserialize(StoreGet(ops[s].pk).value, heap)
     IN /\ ops' = [ops EXCEPT ![s] =
                     Resolve([@ EXCEPT !.pc = "commit"], got.value)]
        /\ heap' = got.heap
        /\ held' = IF IsRef(got.value) THEN held \cup {got.value.n} ELSE held
  /\ UNCHANGED <<outside, engine, isDeleted, txQueue, history, plan>>

\* --------------------------------------------------------------- setItemAsync
\* A read-write transaction that fails is rolled back to the state it started
\* from, key generator included.
Begin(op) == [op EXCEPT !.undo = records, !.undoPk = nextPk]

\* getKeyRequest.onsuccess of setItemAsync: a new key scans the 'indexes'
\* index backwards, a known key reads its entry.
SetGetKeySuccess(s) ==
  /\ ops[s].kind = "set" /\ ops[s].pc = "getKey"
  /\ CanRun(s)
  /\ LET pk == KeysGetKey(ops[s].key)
     IN ops' = [ops EXCEPT ![s] =
                  Called(Begin([@ EXCEPT
                    !.pc = IF pk = 0 THEN "cursor" ELSE "getEntry",
                    !.pk = pk]))]
  /\ UNCHANGED <<outside, engine, isDeleted, txQueue, caller, history, plan>>

\* Faulty variant: the new entry leaves one ordinal out.
NewEntrySkip(key, value) ==
  [pk |-> 0, index |-> LastObjectIndex + 2, key |-> key, value |-> value]

\* Faulty variant: the ordinal is taken from the key generator, which clear
\* does not reset.
NewEntryByPk(key, value) ==
  [pk |-> 0, index |-> nextPk - 1, key |-> key, value |-> value]

\* The entry set appends for a new key.
NewEntry(key, value) ==
  [pk |-> 0, index |-> LastObjectIndex + 1, key |-> key, value |-> value]

\* openCursorRequest.onsuccess of setItemAsync: objectStore.add(newEntry),
\* db.close(), resolve(new Ok()).  The promise is resolved when add has been
\* called, not when the add request has succeeded.
SetOpenCursorSuccess(s) ==
  /\ ops[s].kind = "set" /\ ops[s].pc = "cursor"
  /\ CanRun(s)
  /\ ops' = [ops EXCEPT ![s] =
               Resolve(Called([@ EXCEPT
                 !.pc = "add",
                 !.entry = NewEntry(ops[s].key, Serialize(ops[s].arg, heap))]), OkValue)]
  /\ UNCHANGED <<outside, engine, isDeleted, txQueue, caller, history, plan>>

\* The Engine carries out the add request: the record gets the next primary
\* key.  A ConstraintError has no handler and aborts the transaction.
SetAddDone(s) ==
  /\ ops[s].pc = "add"
  /\ CanRun(s)
  /\ IF Unique(ops[s].entry, 0)
     THEN /\ records' = records \cup {[ops[s].entry EXCEPT !.pk = nextPk]}
          /\ nextPk' = nextPk + 1
     ELSE /\ records' = ops[s].undo
          /\ nextPk' = ops[s].undoPk
  /\ ops' = [ops EXCEPT ![s].pc = "commit"]
  /\ UNCHANGED <<outside, db, isDeleted, txQueue, caller, history, plan>>

\* Faulty variant: an update that also moves the entry behind the last one.
UpdatedEntryAtEnd(entry, value) ==
  [entry EXCEPT !.value = value, !.index = LastObjectIndex + 1]

\* Faulty variant: an update that puts the entry back as it was read.
UpdatedEntryKept(entry, value) == entry

\* entry.value = value: the entry keeps its index and its key.
UpdatedEntry(entry, value) == [entry EXCEPT !.value = value]

\* getEntryRequest.onsuccess of setItemAsync: entry.value = value and
\* objectStore.put(entry, key), which serialises the entry.
SetGetEntrySuccess(s) ==
  /\ ops[s].kind = "set" /\ ops[s].pc = "getEntry"
  /\ CanRun(s)
  /\ ops' = [ops EXCEPT ![s] =
               Called([@ EXCEPT
                 !.pc = "put",
                 !.entry = UpdatedEntry(StoreGet(ops[s].pk),
                                        Serialize(ops[s].arg, heap))])]
  /\ UNCHANGED <<outside, engine, isDeleted, txQueue, caller, history, plan>>

\* The store after put(entry, pk).
StorePut(entry, pk) ==
  {r \in records : r.pk # pk} \cup {[entry EXCEPT !.pk = pk]}

\* setValueRequest.onsuccess / onerror of setItemAsync.
SetPutSuccess(s) ==
  /\ ops[s].kind = "set" /\ ops[s].pc = "put"
  /\ CanRun(s)
  /\ IF Unique(ops[s].entry, ops[s].pk)
     THEN /\ records' = StorePut(ops[s].entry, ops[s].pk)
          /\ ops' = [ops EXCEPT ![s] = Resolve([@ EXCEPT !.pc = "commit"], OkValue)]
          /\ nextPk' = nextPk
     ELSE /\ records' = ops[s].undo
          /\ nextPk' = ops[s].undoPk
          /\ ops' = [ops EXCEPT ![s] =
                       Reject([@ EXCEPT !.pc = "commit"], ConstraintError)]
  /\ UNCHANGED <<outside, db, isDeleted, txQueue, caller, history, plan>>

\* ------------------------------------------------------------ removeItemAsync
\* Faulty variant: no test for an absent key; objectStore.delete(undefined) throws
\* inside the handler and the promise is left pending.
RemoveGetKeySuccessNoTest(s) ==
  /\ ops[s].kind = "remove" /\ ops[s].pc = "getKey"
  /\ CanRun(s)
  /\ LET keyToDel == KeysGetKey(ops[s].key)
     IN ops' = [ops EXCEPT ![s] =
                  IF keyToDel = 0
                  THEN Called(Begin([@ EXCEPT !.pc = "stuck"]))
                  ELSE Called(Begin([@ EXCEPT !.pc = "delete", !.pk = keyToDel]))]
  /\ UNCHANGED <<outside, engine, isDeleted, txQueue, caller, history, plan>>

\* getKeyRequest.onsuccess of removeItemAsync: an absent key resolves at once,
\* a present one is deleted.
RemoveGetKeySuccess(s) ==
  /\ ops[s].kind = "remove" /\ ops[s].pc = "getKey"
  /\ CanRun(s)
  /\ LET keyToDel == KeysGetKey(ops[s].key)
     IN ops' = [ops EXCEPT ![s] =
                  IF keyToDel = 0
                  THEN Resolve(Begin([@ EXCEPT !.pc = "commit"]), OkValue)
                  ELSE Called(Begin([@ EXCEPT !.pc = "delete", !.pk = keyToDel]))]
  /\ UNCHANGED <<outside, engine, isDeleted, txQueue, caller, history, plan>>

\* deleteRequest.onsuccess: the record is gone and a cursor is opened on the
\* primary keys from keyToDel upwards.
RemoveDeleteSuccess(s) ==
  /\ ops[s].kind = "remove" /\ ops[s].pc = "delete"
  /\ CanRun(s)
  /\ records' = {r \in records : r.pk # ops[s].pk}
  /\ ops' = [ops EXCEPT ![s] = Called([@ EXCEPT !.pc = "compact"])]
  /\ UNCHANGED <<outside, nextPk, db, isDeleted, txQueue, caller, history, plan>>

\* Faulty variant: the entry put back with its index untouched.
ShiftedSame(entry) == entry

\* The entry the cursor is on, with its index decremented.
Shifted(entry) == [entry EXCEPT !.index = @ - 1]

\* openCursorRequest.onsuccess of removeItemAsync, once per cursor position:
\* put the current entry back with index - 1 and continue, or resolve when
\* the cursor is null.  ops[s].pk is the lower bound of what is still to
\* visit.  A put that fails rejects and aborts the transaction.
RemoveCursorSuccess(s) ==
  /\ ops[s].kind = "remove" /\ ops[s].pc = "compact"
  /\ CanRun(s)
  /\ LET currentKey == CursorAt(ops[s].pk)
     IN IF currentKey = 0
        THEN /\ ops' = [ops EXCEPT ![s] = Resolve([@ EXCEPT !.pc = "commit"], OkValue)]
             /\ UNCHANGED <<records, nextPk>>
        ELSE IF Unique(Shifted(StoreGet(currentKey)), currentKey)
        THEN /\ records' = StorePut(Shifted(StoreGet(currentKey)), currentKey)
             /\ ops' = [ops EXCEPT ![s] =
                          Called(Called([@ EXCEPT !.pk = currentKey + 1]))]
             /\ nextPk' = nextPk
        ELSE /\ records' = ops[s].undo
             /\ nextPk' = ops[s].undoPk
             /\ ops' = [ops EXCEPT ![s] =
                          Reject([@ EXCEPT !.pc = "commit"], ConstraintError)]
  /\ UNCHANGED <<outside, db, isDeleted, txQueue, caller, history, plan>>

\* ------------------------------------------------------------------ clearAsync
\* clearRequest.onsuccess: every record is deleted; the key generator is not
\* reset.
ClearSuccess(s) ==
  /\ ops[s].kind = "clear" /\ ops[s].pc = "clear"
  /\ CanRun(s)
  /\ records' = {}
  /\ ops' = [ops EXCEPT ![s] = Resolve([@ EXCEPT !.pc = "commit"], OkValue)]
  /\ UNCHANGED <<outside, nextPk, db, isDeleted, txQueue, caller, history, plan>>

\* ------------------------------------------------------------------- sizeAsync
\* Faulty variant: only the records whose value is not undefined are counted.
CountSuccessDefined(s) ==
  /\ ops[s].kind = "size" /\ ops[s].pc = "count"
  /\ CanRun(s)
  /\ ops' = [ops EXCEPT ![s] =
               Resolve([@ EXCEPT !.pc = "commit"],
                       Num(Cardinality({r \in records : r.value # Undefined})))]
  /\ UNCHANGED <<outside, engine, isDeleted, txQueue, caller, history, plan>>

\* countRequest.onsuccess: resolve(countRequest.result).
CountSuccess(s) ==
  /\ ops[s].kind = "size" /\ ops[s].pc = "count"
  /\ CanRun(s)
  /\ ops' = [ops EXCEPT ![s] =
               Resolve([@ EXCEPT !.pc = "commit"], Num(Cardinality(records)))]
  /\ UNCHANGED <<outside, engine, isDeleted, txQueue, caller, history, plan>>

\* -------------------------------------------------------------------- keyAsync
\* getKeyRequest.onsuccess of keyAsync: look the ordinal up in 'indexes'.
KeyGetKeySuccess(s) ==
  /\ ops[s].kind = "key" /\ ops[s].pc = "idxGetKey"
  /\ CanRun(s)
  /\ LET pk == IndexesGetKey(ops[s].arg.n)
     IN ops' = [ops EXCEPT ![s] =
                  IF pk = 0
                  THEN Resolve([@ EXCEPT !.pc = "commit"], Undefined)
                  ELSE Called([@ EXCEPT !.pc = "getEntry", !.pk = pk])]
  /\ UNCHANGED <<outside, engine, isDeleted, txQueue, caller, history, plan>>

\* getEntryRequest.onsuccess of keyAsync: resolve(entry.key).
KeyGetEntrySuccess(s) ==
  /\ ops[s].kind = "key" /\ ops[s].pc = "getEntry"
  /\ CanRun(s)
  /\ ops' = [ops EXCEPT ![s] =
               Resolve([@ EXCEPT !.pc = "commit"], Str(StoreGet(@.pk).key))]
  /\ UNCHANGED <<outside, engine, isDeleted, txQueue, caller, history, plan>>

\* ---------------------------------------------------------- deleteStorageAsync
\* A connection stays open from open's success until its transaction has
\* finished; deleteDatabase waits for every connection to close.
ConnectionOpen(s) == ops[s].pc \notin {"idle", "open", "deleteDB", "done"}

\* deleteDBRequest.onsuccess: the database is gone, isDeleted = true.
DeleteDBSuccess(s) ==
  /\ ops[s].kind = "deleteStorage" /\ ops[s].pc = "deleteDB"
  /\ \A t \in Slots : ~ConnectionOpen(t)
  /\ records' = {}
  /\ nextPk' = 1
  /\ db' = "absent"
  /\ isDeleted' = [isDeleted EXCEPT ![ops[s].inst] = TRUE]
  /\ ops' = [ops EXCEPT ![s] = Resolve([@ EXCEPT !.pc = "done"], OkValue)]
  /\ UNCHANGED <<outside, txQueue, caller, history, plan>>

\* ------------------------------------------------------------- Engine errors
\* The error of a request that failed (openRequest.error, ...).
EngineError == V("error", 3, "EngineError")

\* The requests a method issues inside its transaction.
Requests ==
  {"getKey", "getValue", "cursor", "add", "getEntry", "put", "delete",
   "compact", "clear", "count", "idxGetKey"}

\* The requests issued once Begin has recorded the state to roll back to.
Begun == {"cursor", "add", "getEntry", "put", "delete", "compact"}

\* The operation's transaction is a 'readwrite' one that has been given its
\* first request after the lookup of the key, so it has something to undo.
Wrote(op) == op.mode = "readwrite" /\ op.pc \in Begun

\* Every request has an onerror handler that rejects, except the add of
\* setItemAsync.
Handled(pc) == pc # "add"

\* Only setItemAsync's new-key path calls db.close() before its last request
\* has finished; after any other failed request nothing closes the
\* connection.
ClosedEarly(pc) == pc = "add"

\* openRequest.onerror: reject(openRequest.error).
OpenError(s) ==
  /\ ops[s].pc = "open"
  /\ ops' = [ops EXCEPT ![s] = Reject([@ EXCEPT !.pc = "done"], EngineError)]
  /\ UNCHANGED <<outside, engine, isDeleted, txQueue, caller, history, plan>>

\* A request of the transaction fails: its onerror handler, if it has one,
\* rejects with the request's error; the error is not prevented, so the
\* transaction aborts, what it wrote is rolled back and oncomplete never
\* fires.
RequestError(s) ==
  /\ ops[s].pc \in Requests
  /\ CanRun(s)
  /\ records' = IF Wrote(ops[s]) THEN ops[s].undo ELSE records
  /\ nextPk' = IF Wrote(ops[s]) THEN ops[s].undoPk ELSE nextPk
  /\ ops' = [ops EXCEPT ![s] =
               LET op == [Finished(@) EXCEPT
                            !.pc = IF ClosedEarly(ops[s].pc) THEN "done"
                                   ELSE "aborted"]
               IN IF Handled(ops[s].pc) THEN Reject(op, EngineError) ELSE op]
  /\ txQueue' = Remove(txQueue, s)
  /\ UNCHANGED <<outside, db, isDeleted, caller, history, plan>>

\* A connection nothing refers to any more is closed when it is collected.
ConnectionCollected(s) ==
  /\ ops[s].pc = "aborted"
  /\ ops' = [ops EXCEPT ![s].pc = "done"]
  /\ UNCHANGED <<outside, engine, isDeleted, txQueue, caller, history, plan>>

\* Faulty variant: the flag is set when the deletion failed, too.
DeleteDBErrorFlagged(s) ==
  /\ ops[s].kind = "deleteStorage" /\ ops[s].pc = "deleteDB"
  /\ isDeleted' = [isDeleted EXCEPT ![ops[s].inst] = TRUE]
  /\ ops' = [ops EXCEPT ![s] = Reject([@ EXCEPT !.pc = "done"], EngineError)]
  /\ UNCHANGED <<outside, engine, txQueue, caller, history, plan>>

\* deleteDBRequest.onerror: reject(deleteDBRequest.error); isDeleted is left
\* as it is.
DeleteDBError(s) ==
  /\ ops[s].kind = "deleteStorage" /\ ops[s].pc = "deleteDB"
  /\ isDeleted' = isDeleted
  /\ ops' = [ops EXCEPT ![s] = Reject([@ EXCEPT !.pc = "done"], EngineError)]
  /\ UNCHANGED <<outside, engine, txQueue, caller, history, plan>>

\* --------------------------------------------------------------------- entries
\* The records in ascending ordinal order.
RECURSIVE Ascending(_)
Ascending(rs) ==
  IF rs = {} THEN <<>>
  ELSE LET r == CHOOSE x \in rs : \A y \in rs : x.index <= y.index
       IN <<r>> \o Ascending(rs \ {r})

\* entries: the (key, value) pairs by ascending ordinal, read after the same
\* guard and open as every other data operation.
EntriesScan(s) ==
  /\ ops[s].kind = "entries" /\ ops[s].pc = "scan"
  /\ CanRun(s)
  /\ ops' = [ops EXCEPT ![s] =
               Resolve([@ EXCEPT
                 !.pc = "commit",
                 !.out = [i \in 1..Cardinality(records) |->
                            <<Ascending(records)[i].key,
                              Ascending(records)[i].value>>]], OkValue)]
  /\ UNCHANGED <<outside, engine, isDeleted, txQueue, caller, history, plan>>

\* ---------------------------------------------------------- default values
\* Faulty variant: the default values are those of the first instance.
DefaultOfShared(inst, key) ==
  IF key \in DOMAIN overlay[1] THEN overlay[1][key] ELSE Undefined

\* The default value instance inst has for key, undefined when it has none.
DefaultOf(inst, key) ==
  IF key \in DOMAIN overlay[inst] THEN overlay[inst][key] ELSE Undefined

\* The facade's read of a key, once getItemAsync has resolved: the default
\* value is used if the value in the storage is undefined.  ops[s].out
\* holds what the read delivers.
FacadeRead(s) ==
  /\ ops[s].kind = "get" /\ ops[s].promise = "resolved"
  /\ ops[s].out = <<>>
  /\ ops' = [ops EXCEPT ![s].out =
               <<IF ops[s].result = Undefined
                 THEN DefaultOf(ops[s].inst, ops[s].key)
                 ELSE ops[s].result>>]
  /\ UNCHANGED <<outside, engine, isDeleted, txQueue, caller, history, plan>>

\* getDefault(): the object containing the default values.
GetDefault(inst) == overlay[inst]

\* Faulty variant: a key that has a default value keeps it.
AddDefaultKeep(inst, obj) ==
  /\ overlay' = [overlay EXCEPT ![inst] = overlay[inst] @@ obj]
  /\ overlay' # overlay
  /\ UNCHANGED <<mounted, parked, engine, isDeleted, ops, txQueue, caller,
                 history, plan>>

\* addDefault(obj): adds the keys and values of obj to the default values.
AddDefault(inst, obj) ==
  /\ overlay' = [overlay EXCEPT ![inst] = obj @@ overlay[inst]]
  /\ overlay' # overlay
  /\ UNCHANGED <<mounted, parked, engine, isDeleted, ops, txQueue, caller,
                 history, plan>>

\* Faulty variant: setDefault adds obj to the default values.
SetDefaultAdded(inst, obj) ==
  /\ overlay' = [overlay EXCEPT ![inst] = obj @@ overlay[inst]]
  /\ overlay' # overlay
  /\ UNCHANGED <<mounted, parked, engine, isDeleted, ops, txQueue, caller,
                 history, plan>>

\* setDefault(obj): replaces the default values with obj.
SetDefault(inst, obj) ==
  /\ overlay' = [overlay EXCEPT ![inst] = obj]
  /\ overlay' # overlay
  /\ UNCHANGED <<mounted, parked, engine, isDeleted, ops, txQueue, caller,
                 history, plan>>

\* clearDefault(): replaces the default values with an empty object.
ClearDefault(inst) ==
  /\ overlay' = [overlay EXCEPT ![inst] = [k \in {} |-> Undefined]]
  /\ overlay' # overlay
  /\ UNCHANGED <<mounted, parked, engine, isDeleted, ops, txQueue, caller,
                 history, plan>>

\* ------------------------------------------------------------------ the caller
\* References an operation still uses: the value a pending or unfinished set
\* was given, and the result the last call delivered.
InUse(o) ==
  \E s \in Slots : ops[s].kind # "none"
                   /\ (ops[s].arg = Ref(o) \/ ops[s].result = Ref(o))

\* const a = { c: ... }
NewObject(c) ==
  /\ ~Pending
  /\ FreshObj(heap) # 0
  /\ heap' = [heap EXCEPT ![FreshObj(heap)] = c]
  /\ held' = held \cup {FreshObj(heap)}
  /\ UNCHANGED <<outside, engine, isDeleted, ops, txQueue, history, plan>>

\* The caller lets go of an object.
Drop(o) ==
  /\ ~Pending
  /\ o \in held
  /\ ~InUse(o)
  /\ heap' = [heap EXCEPT ![o] = Free]
  /\ held' = held \ {o}
  /\ UNCHANGED <<outside, engine, isDeleted, ops, txQueue, history, plan>>

\* Keys whose pending set was given object o.
BeingSet(o) ==
  {ops[s].key : s \in {t \in Slots : /\ ops[t].kind = "set"
                                     /\ ops[t].promise = "pending"
                                     /\ ops[t].arg = Ref(o)}}

\* a.c = [30]: the caller changes an object it holds, at any time.
Mutate(o, c) ==
  /\ o \in held
  /\ heap[o] # c
  /\ heap' = [heap EXCEPT ![o] = c]
  /\ tainted' = tainted \cup BeingSet(o)
  /\ UNCHANGED <<outside, engine, isDeleted, ops, txQueue, held, order, expect, plan>>

\* --------------------------------------------------------------- initial state
\* Every instance has been initialised, 1 first: initAsync has created each
\* database with the object store named like it and its two indexes, nothing
\* is stored, nothing is running, no instance has default values.
InitCommon ==
  /\ records = {}
  /\ nextPk = 1
  /\ db = "ready"
  /\ isDeleted = [i \in AllInstances |-> FALSE]
  /\ ops = [s \in Slots |-> NoOp]
  /\ txQueue = <<>>
  /\ heap = [o \in ObjIds |-> Free]
  /\ held = {}
  /\ order = <<>>
  /\ expect = [k \in AllKeys |-> Undefined]
  /\ tainted = {}
  /\ mounted = "settings"
  /\ parked = [records |-> {}, nextPk |-> 1, db |-> "ready", order |-> <<>>,
               expect |-> [k \in AllKeys |-> Undefined], tainted |-> {}]
  /\ overlay = [i \in AllInstances |-> [k \in {} |-> Undefined]]

C(kind, key, arg) == [kind |-> kind, key |-> key, arg |-> arg]

\* Adds that have been called and not carried out yet.
AddsPending == Cardinality({s \in Slots : ops[s].pc = "add"})

\* --------------------------------------- Spec: ordinals under awaited calls
Keys == {"value", "value2", "value3"}
Values == {Num(10), Num(20)}

\* The test 'Async: delete key + iteration'.
Stop == C("stop", "", Undefined)
Scenario ==
  << C("set", "value", Num(10)), C("set", "value2", Num(20)),
     C("set", "value3", Num(30)), C("set", "value4", Num(40)),
     C("remove", "value", Undefined), C("remove", "value3", Undefined),
     C("set", "value5", Num(50)), C("set", "value", Num(1)),
     C("set", "value6", Num(60)), Stop >>

Init ==
  /\ InitCommon
  /\ plan \in {<<>>, Scenario}

Writes ==
  {C("set", k, v) : k \in Keys, v \in Values}
    \cup {C("remove", k, Undefined) : k \in Keys}
    \cup {C("clear", "", Undefined)}

Gets == {C("get", k, Undefined) : k \in Keys}

Reads(keys, ordinals) ==
  {C("get", k, Undefined) : k \in keys}
    \cup {C("key", "", Num(i)) : i \in ordinals}
    \cup {C("size", "", Undefined)}

\* The caller awaits every call: the next one is made when no promise is
\* pending.  Any write and any get on three keys.
CallFree ==
  /\ plan = <<>>
  /\ ~Pending
  /\ \E c \in Writes \cup Gets :
       /\ c.kind = "set" => nextPk + AddsPending <= MaxPk
       /\ Call(1, c.kind, c.key, c.arg)
  /\ plan' = plan

\* The scripted run issues its writes in order ...
CallPlan ==
  /\ plan # <<>>
  /\ Head(plan) # Stop
  /\ ~Pending
  /\ Call(1, Head(plan).kind, Head(plan).key, Head(plan).arg)
  /\ plan' = Tail(plan)

\* ... and may read in between.
CallPlanRead ==
  /\ plan # <<>>
  /\ ~Pending
  /\ \E c \in Reads(AllKeys, 0..5) : Call(1, c.kind, c.key, c.arg)
  /\ plan' = plan

Next ==
  \/ CallFree
  \/ CallPlan
  \/ CallPlanRead
  \/ \E s \in Slots :
       \/ OpenSuccess(s)
       \/ TxComplete(s)
       \/ GetKeySuccess(s)
       \/ GetValueSuccess(s)
       \/ SetGetKeySuccess(s)
       \/ SetOpenCursorSuccess(s)
       \/ SetAddDone(s)
       \/ SetGetEntrySuccess(s)
       \/ SetPutSuccess(s)
       \/ RemoveGetKeySuccess(s)
       \/ RemoveDeleteSuccess(s)
       \/ RemoveCursorSuccess(s)
       \/ ClearSuccess(s)
       \/ CountSuccess(s)
       \/ KeyGetKeySuccess(s)
       \/ KeyGetEntrySuccess(s)

Spec == Init /\ [][Next]_vars

\* ------------------------------------------------------------ what is claimed
\* A write is still being carried out by the Engine.
WriteLive ==
  \E s \in Slots : ops[s].mode = "readwrite" /\ ops[s].pc \notin {"idle", "done"}

\* Every call has been awaited and every write has reached the store.
Settled == ~Pending /\ ~WriteLive

OrdinalsHeld == {r.index : r \in records}

KeysAscending ==
  [i \in 1..Cardinality(records) |-> Ascending(records)[i].key]

Has(rs, key) == \E r \in rs : r.key = key
Rec(rs, key) == CHOOSE r \in rs : r.key = key

\* A resolved operation of the given kind whose transaction has run all its
\* requests; ops[s].undo is the store as the transaction found it.
Ran(s, kind) ==
  /\ ops[s].kind = kind
  /\ ops[s].pc = "commit"
  /\ ops[s].promise = "resolved"

\* C1: whenever no call is pending, the ordinals held by the records are
\* exactly 0 .. size-1 and no two records hold the same ordinal.
C1_Gapless ==
  ~Pending =>
    /\ OrdinalsHeld = 0..(Cardinality(records) - 1)
    /\ \A r, q \in records : r.index = q.index => r = q

\* A remove that had records to renumber has completed and left several.
C1_Witness ==
  /\ ~Pending
  /\ Cardinality(records) >= 2
  /\ \E s \in Slots : Ran(s, "remove") /\ ops[s].calls >= 9

\* C2: once every awaited write has reached the store, the keys in ascending
\* ordinal order are the live keys in the order their current records were
\* created (an update does not move a key, a key removed and set again goes
\* last); and the scripted run of the test ends with value2(0), value4(1),
\* value5(2), value(3), value6(4).
C2_InsertionOrder ==
  Settled =>
    /\ KeysAscending = order
    /\ plan = <<Stop>> =>
         {<<r.key, r.index>> : r \in records} =
           {<<"value2", 0>>, <<"value4", 1>>, <<"value5", 2>>,
            <<"value", 3>>, <<"value6", 4>>}

\* The scripted run has finished.
C2_Witness ==
  /\ Settled
  /\ plan = <<Stop>>
  /\ Cardinality(records) = 5

\* The store a remove of key must leave, given the store rs it found.
AfterRemove(rs, key) ==
  {IF r.index > Rec(rs, key).index THEN [r EXCEPT !.index = @ - 1] ELSE r :
     r \in rs \ {Rec(rs, key)}}

\* C3: a resolved remove of a present key has deleted that record, lowered by
\* one the ordinal of every record above it and changed nothing else.
C3_RemoveCompacts ==
  \A s \in Slots :
    Ran(s, "remove") /\ Has(ops[s].undo, ops[s].key) =>
      records = AfterRemove(ops[s].undo, ops[s].key)

\* A remove of the middle one of three records.
C3_Witness ==
  \E s \in Slots :
    /\ Ran(s, "remove")
    /\ Has(ops[s].undo, ops[s].key)
    /\ Cardinality(ops[s].undo) = 3
    /\ Rec(ops[s].undo, ops[s].key).index = 1

MaxOrdinal(rs) ==
  IF rs = {} THEN 0 - 1
  ELSE CHOOSE m \in {r.index : r \in rs} : \A r \in rs : r.index <= m

\* C4: a set of an absent key, once carried out, has added one record, with
\* ordinal = largest ordinal + 1 = size before the call, the key and the
\* value given, and has left every other record as it was.
C4_SetAppends ==
  \A s \in Slots :
    Ran(s, "set") /\ ~Has(ops[s].undo, ops[s].key) =>
      /\ Has(records, ops[s].key)
      /\ records \ {Rec(records, ops[s].key)} = ops[s].undo
      /\ Cardinality(records) = Cardinality(ops[s].undo) + 1
      /\ Rec(records, ops[s].key).index = MaxOrdinal(ops[s].undo) + 1
      /\ Rec(records, ops[s].key).index = Cardinality(ops[s].undo)
      /\ Rec(records, ops[s].key).value = expect[ops[s].key]

\* A set of a new key into a store that already held two records.
C4_Witness ==
  \E s \in Slots :
    /\ Ran(s, "set")
    /\ ~Has(ops[s].undo, ops[s].key)
    /\ Cardinality(ops[s].undo) = 2
    /\ Has(records, ops[s].key)

\* C5: a resolved set of a key that had a record has replaced that record's
\* value and nothing else: same ordinal, same size, one record for the key.
C5_SetUpdates ==
  \A s \in Slots :
    Ran(s, "set") /\ Has(ops[s].undo, ops[s].key) =>
      records = (ops[s].undo \ {Rec(ops[s].undo, ops[s].key)})
                  \cup {[Rec(ops[s].undo, ops[s].key) EXCEPT
                           !.value = expect[ops[s].key]]}

\* An update that changes the value of the first of several records.
C5_Witness ==
  \E s \in Slots :
    /\ Ran(s, "set")
    /\ Has(ops[s].undo, ops[s].key)
    /\ Cardinality(ops[s].undo) >= 2
    /\ Rec(ops[s].undo, ops[s].key).index = 0
    /\ Rec(ops[s].undo, ops[s].key).value # expect[ops[s].key]

\* C6: a remove that has looked its key up and found no record is resolved
\* with Ok and has left the store as it found it.
C6_RemoveAbsent ==
  \A s \in Slots :
    /\ ops[s].kind = "remove"
    /\ ops[s].promise # "none"
    /\ ops[s].pc \notin {"open", "getKey", "done"}
    /\ ~Has(ops[s].undo, ops[s].key)
    => /\ ops[s].promise = "resolved"
       /\ ops[s].result = OkValue
       /\ records = ops[s].undo

\* A remove of an absent key on a store that holds records and has had one
\* removed before.
C6_Witness ==
  \E s \in Slots :
    /\ Ran(s, "remove")
    /\ ~Has(ops[s].undo, ops[s].key)
    /\ records # {}
    /\ nextPk > Cardinality(records) + 1

\* ----------------------------- SpecValues: object values and their copies
ValueKeys == {"value"}

\* Writes of a caller that awaits each call: set of a number or of an object
\* it holds, remove, clear.
ValueWrites ==
  {C("set", k, v) : k \in ValueKeys, v \in {Num(10)} \cup {Ref(o) : o \in held}}
    \cup {C("remove", k, Undefined) : k \in ValueKeys}
    \cup {C("clear", "", Undefined)}

\* The first instance writes ...
CallValues ==
  /\ ~Pending
  /\ \E c \in ValueWrites :
       /\ c.kind = "set" => nextPk + AddsPending <= MaxPkVal
       /\ Call(1, c.kind, c.key, c.arg)
  /\ plan' = plan

\* ... and it or a second instance on the same store reads.
CallValuesGet ==
  /\ ~Pending
  /\ FreshObj(heap) # 0
  /\ \E k \in ValueKeys, i \in Instances : Call(i, "get", k, Undefined)
  /\ plan' = plan

InitValues == InitCommon /\ plan = <<>>

NextValues ==
  \/ CallValues
  \/ CallValuesGet
  \/ \E c \in Contents : NewObject(c)
  \/ \E o \in ObjIds, c \in Contents : Mutate(o, c)
  \/ \E o \in ObjIds : Drop(o)
  \/ \E s \in Slots :
       \/ OpenSuccess(s)
       \/ TxComplete(s)
       \/ GetKeySuccess(s)
       \/ GetValueSuccess(s)
       \/ SetGetKeySuccess(s)
       \/ SetOpenCursorSuccess(s)
       \/ SetAddDone(s)
       \/ SetGetEntrySuccess(s)
       \/ SetPutSuccess(s)
       \/ RemoveGetKeySuccess(s)
       \/ RemoveDeleteSuccess(s)
       \/ RemoveCursorSuccess(s)
       \/ ClearSuccess(s)

SpecValues == InitValues /\ [][NextValues]_vars

\* C7: a get that has resolved returned the value of the most recent
\* set(k, v) made since the last remove(k) or clear(), and undefined when
\* there is none.
C7_RoundTrip ==
  \A s \in Slots :
    ops[s].kind = "get" /\ ops[s].promise = "resolved" =>
      Deep(ops[s].result, heap) = expect[ops[s].key]

\* A get of the second of two records that returned 20, and a removal
\* before it.
C7_Witness ==
  \E s \in Slots :
    /\ ops[s].kind = "get" /\ ops[s].promise = "resolved"
    /\ ops[s].result = Num(20)
    /\ plan = <<>>
    /\ Cardinality(records) = 2
    /\ Rec(records, ops[s].key).index = 1
    /\ nextPk > 3

\* The key's record holds, as a deep copy, what expect says.
StoredAsExpected(k) ==
  IF expect[k] = Undefined
  THEN ~Has(records, k)
  ELSE Has(records, k) /\ Deep(Rec(records, k).value, heap) = expect[k]

\* C8 as claimed: whatever the caller does to its object after set(k, v) was
\* called, the store ends up with the value the object had at the call.
C8_CopyAtCall == Settled => \A k \in ValueKeys : StoredAsExpected(k)

\* What setItemAsync does guarantee: the store ends up with a deep copy of the
\* value the object had at the call unless the caller changed the object while
\* set was pending; changes made once set has resolved never reach the store.
C8_CopyOnWrite ==
  Settled => \A k \in ValueKeys \ tainted : StoredAsExpected(k)

\* A set of an object has completed through the update path, the caller has
\* changed the object since, and the record still holds the old content.
C8_Witness ==
  /\ Settled
  /\ \E s \in Slots :
       /\ ops[s].kind = "set" /\ ops[s].pc = "done" /\ ops[s].pk # 0
       /\ IsRef(ops[s].arg)
       /\ ops[s].key \notin tainted
       /\ Has(records, ops[s].key)
       /\ heap[ops[s].arg.n] \in Contents
       /\ Rec(records, ops[s].key).value # Obj(heap[ops[s].arg.n])

\* References in use before a step: held by the caller, given to or returned
\* by an operation, or kept in a record.
Known(v) ==
  \/ IsRef(v) /\ v.n \in held
  \/ \E s \in Slots : ops[s].arg = v \/ ops[s].result = v
  \/ \E r \in records : r.value = v

GetResolves(s) ==
  /\ ops[s].kind = "get"
  /\ ops[s].promise = "pending"
  /\ ops'[s].promise = "resolved"

\* C9: the object a get returns is new (no reference to it existed before),
\* has the stored content, and no change of the heap, by the caller or by a
\* read, changes the content of a record.
C9_CopyOnRead ==
  [][/\ \A s \in Slots :
          GetResolves(s) /\ IsRef(ops'[s].result) =>
            /\ ~Known(ops'[s].result)
            /\ heap[ops'[s].result.n] = Free
            /\ Obj(heap'[ops'[s].result.n]) = StoreGet(ops[s].pk).value
      /\ \A r \in records \cap records' :
            Deep(r.value, heap') = Deep(r.value, heap)]_vars

\* The second instance has read an object while the caller holds another
\* object with a different content and the written object is still allocated.
C9_Witness ==
  \E s \in Slots :
    /\ ops[s].kind = "get" /\ ops[s].inst = 2 /\ ops[s].promise = "resolved"
    /\ IsRef(ops[s].result)
    /\ Cardinality(held) = 3
    /\ \E p \in held : heap[p] # heap[ops[s].result.n]

\* ------------------------------------- SpecDelete: deleteStorage and after
DataKinds == {"get", "set", "remove", "clear", "size", "key", "entries"}

DeleteCalls ==
  {C("set", "value", Num(10)), C("get", "value", Undefined),
   C("remove", "value", Undefined), C("clear", "", Undefined),
   C("size", "", Undefined), C("key", "", Num(0)),
   C("entries", "", Undefined), C("deleteStorage", "", Undefined)}

\* Either instance calls any method, deleteStorage included, awaiting each.
CallDelete ==
  /\ ~Pending
  /\ \E c \in DeleteCalls, i \in Instances :
       /\ c.kind = "set" => nextPk + AddsPending <= MaxPkVal
       /\ Call(i, c.kind, c.key, c.arg)
  /\ plan' = plan

InitDelete == InitCommon /\ plan = <<>>

NextDelete ==
  \/ CallDelete
  \/ \E s \in Slots :
       \/ OpenSuccess(s)
       \/ TxComplete(s)
       \/ GetKeySuccess(s)
       \/ GetValueSuccess(s)
       \/ SetGetKeySuccess(s)
       \/ SetOpenCursorSuccess(s)
       \/ SetAddDone(s)
       \/ SetGetEntrySuccess(s)
       \/ SetPutSuccess(s)
       \/ RemoveGetKeySuccess(s)
       \/ RemoveDeleteSuccess(s)
       \/ RemoveCursorSuccess(s)
       \/ ClearSuccess(s)
       \/ CountSuccess(s)
       \/ KeyGetKeySuccess(s)
       \/ KeyGetEntrySuccess(s)
       \/ EntriesScan(s)
       \/ DeleteDBSuccess(s)

SpecDelete == InitDelete /\ [][NextDelete]_vars

\* C10: on an instance whose deleteStorage has completed, every data call is
\* rejected with 'This Storage was deleted!' and has made no Engine call.
C10_DeletedRejects ==
  \A s \in Slots :
    ops[s].kind \in DataKinds /\ isDeleted[ops[s].inst] =>
      /\ ops[s].promise = "rejected"
      /\ ops[s].result = DeletedError
      /\ ops[s].calls = 0
      /\ ops[s].pc = "done"

\* A set on the first instance rejected after that instance deleted the
\* storage, the second instance not being deleted.
C10_Witness ==
  /\ isDeleted[1] /\ ~isDeleted[2]
  /\ \E s \in Slots :
       /\ ops[s].kind = "set" /\ ops[s].inst = 1
       /\ ops[s].promise = "rejected"
       /\ ops[s].result = DeletedError

\* ---------------------------------------- SpecFail: the Engine may fail
FailKeys == {"value", "value2"}

FailCalls ==
  {C("set", k, Num(10)) : k \in FailKeys}
    \cup {C("remove", "value", Undefined),
          C("get", "value", Undefined), C("clear", "", Undefined),
          C("size", "", Undefined), C("key", "", Num(0)),
          C("deleteStorage", "", Undefined)}

\* The first instance calls any method and the second deletes the storage,
\* awaiting each.
CallFail ==
  /\ ~Pending
  /\ \E c \in FailCalls, i \in Instances :
       /\ c.kind = "set" => nextPk + AddsPending <= MaxPkVal
       /\ i # 1 => c.kind = "deleteStorage"
       /\ Call(i, c.kind, c.key, c.arg)
  /\ plan' = plan

InitFail == InitCommon /\ plan = <<>>

\* Every request succeeds or fails.
NextFail ==
  \/ CallFail
  \/ \E s \in Slots :
       \/ OpenSuccess(s)
       \/ OpenError(s)
       \/ RequestError(s)
       \/ ConnectionCollected(s)
       \/ TxComplete(s)
       \/ GetKeySuccess(s)
       \/ GetValueSuccess(s)
       \/ SetGetKeySuccess(s)
       \/ SetOpenCursorSuccess(s)
       \/ SetAddDone(s)
       \/ SetGetEntrySuccess(s)
       \/ SetPutSuccess(s)
       \/ RemoveGetKeySuccess(s)
       \/ RemoveDeleteSuccess(s)
       \/ RemoveCursorSuccess(s)
       \/ ClearSuccess(s)
       \/ CountSuccess(s)
       \/ KeyGetKeySuccess(s)
       \/ KeyGetEntrySuccess(s)
       \/ DeleteDBSuccess(s)
       \/ DeleteDBError(s)

SpecFail == InitFail /\ [][NextFail]_vars

\* C11: the flag of every instance starts false; it never goes back to false;
\* it becomes true only in the step in which a deleteStorage of that instance
\* is resolved by the success of deleteDatabase; and a deleteStorage rejected
\* by the Engine's error leaves every flag as it was.
C11_OneWay ==
  /\ \A i \in AllInstances : ~isDeleted[i]
  /\ [][/\ \A i \in AllInstances :
             /\ isDeleted[i] => isDeleted'[i]
             /\ ~isDeleted[i] /\ isDeleted'[i] =>
                  \E s \in Slots :
                    /\ ops[s].kind = "deleteStorage" /\ ops[s].inst = i
                    /\ ops[s].pc = "deleteDB"
                    /\ ops'[s].promise = "resolved"
                    /\ ops'[s].result = OkValue
                    /\ db' = "absent"
        /\ \A s \in Slots :
             ops[s].pc = "deleteDB" /\ ops'[s].promise = "rejected" =>
               isDeleted' = isDeleted]_vars

\* The second instance has deleted the storage; a deleteStorage of the first
\* has been rejected with the Engine's error and the first is not deleted.
C11_Witness ==
  /\ isDeleted[2] /\ ~isDeleted[1]
  /\ \E s \in Slots :
       /\ ops[s].kind = "deleteStorage" /\ ops[s].inst = 1
       /\ ops[s].promise = "rejected"
       /\ ops[s].result = EngineError

\* C12: deleteStorage checks the flag first, like every data method: on a
\* deleted instance a deleteStorage is either the one that deleted the storage
\* (resolved, one Engine call) or rejected with 'This Storage was deleted!'
\* without any Engine call; no deleteDatabase request is ever outstanding for
\* a deleted instance, so an instance deletes at most once.
C12_DeleteChecksFlag ==
  \A s \in Slots :
    ops[s].kind = "deleteStorage" /\ isDeleted[ops[s].inst] =>
      /\ ops[s].pc = "done"
      /\ \/ /\ ops[s].promise = "resolved"
            /\ ops[s].result = OkValue
            /\ ops[s].calls = 1
         \/ /\ ops[s].promise = "rejected"
            /\ ops[s].result = DeletedError
            /\ ops[s].calls = 0

\* A second deleteStorage on the first instance has been rejected, the second
\* instance still being usable.
C12_Witness ==
  /\ isDeleted[1] /\ ~isDeleted[2]
  /\ \E s \in Slots :
       /\ ops[s].kind = "deleteStorage" /\ ops[s].inst = 1
       /\ ops[s].promise = "rejected"
       /\ ops[s].result = DeletedError
       /\ ops[s].calls = 0

\* ------------------------------- SpecStores: storages with different setups
\* The caller turns to the storage kept in the other database, when nothing
\* is running: the Engine keeps each database under its own name, and
\* records, nextPk, db and the history describe the one being used.
Serve(d) ==
  /\ d # mounted
  /\ txQueue = <<>>
  /\ \A s \in Slots : ops[s].pc \in {"idle", "done"}
  /\ mounted' = d
  /\ records' = parked.records
  /\ nextPk' = parked.nextPk
  /\ db' = parked.db
  /\ order' = parked.order
  /\ expect' = parked.expect
  /\ tainted' = parked.tainted
  /\ parked' = [records |-> records, nextPk |-> nextPk, db |-> db,
                order |-> order, expect |-> expect, tainted |-> tainted]
  /\ UNCHANGED <<overlay, isDeleted, ops, txQueue, caller, plan>>

StoreCalls ==
  {C("set", "value", v) : v \in Values}
    \cup {C("get", "value", Undefined), C("remove", "value", Undefined),
          C("clear", "", Undefined)}

\* storage (instance 1), storage2 (instance 3) and a storage with the name of
\* storage2 on the database of storage (instance 4), each call awaited.
CallStores ==
  /\ ~Pending
  /\ \E c \in StoreCalls, i \in {1} \cup OtherInstances :
       /\ c.kind = "set" => nextPk + AddsPending <= MaxPkVal
       /\ Call(i, c.kind, c.key, c.arg)
  /\ plan' = plan

InitStores == InitCommon /\ plan = <<>>

NextStores ==
  \/ CallStores
  \/ \E d \in DbNames : Serve(d)
  \/ \E s \in Slots :
       \/ OpenSuccess(s)
       \/ TxComplete(s)
       \/ GetKeySuccess(s)
       \/ GetValueSuccess(s)
       \/ SetGetKeySuccess(s)
       \/ SetOpenCursorSuccess(s)
       \/ SetAddDone(s)
       \/ SetGetEntrySuccess(s)
       \/ SetPutSuccess(s)
       \/ RemoveGetKeySuccess(s)
       \/ RemoveDeleteSuccess(s)
       \/ RemoveCursorSuccess(s)
       \/ ClearSuccess(s)

SpecStores == InitStores /\ [][NextStores]_vars

\* The records and the history of the store in database d.
RecordsIn(d) == IF d = mounted THEN records ELSE parked.records
ExpectIn(d) == IF d = mounted THEN expect ELSE parked.expect

\* Each of the storages of the instances in I works and holds what was done
\* through it alone: none of their operations is left unsettled by a missing
\* store; a get returns the value last set through that storage; and once
\* every write has reached the store, each database holds for "value" what
\* was last set through its own storage, whatever was done through the other.
Isolated(I) ==
  /\ \A s \in Slots : ops[s].inst \in I => ops[s].pc # "stuck"
  /\ \A s \in Slots :
       /\ ops[s].inst \in I /\ DbName(ops[s].inst) = mounted
       /\ ops[s].kind = "get" /\ ops[s].promise = "resolved"
       => ops[s].result = expect[ops[s].key]
  /\ Settled =>
       \A d \in DbNames :
         IF ExpectIn(d)["value"] = Undefined
         THEN ~Has(RecordsIn(d), "value")
         ELSE /\ Has(RecordsIn(d), "value")
              /\ Rec(RecordsIn(d), "value").value = ExpectIn(d)["value"]

\* C13 as claimed: two storages with different names on the same database
\* (instances 1 and 4) do not interfere: after set("value", 10) on both,
\* setting the second to 20 leaves the first at 10, and clearing the first
\* leaves the second at 20.
C13_SameLocation == Isolated({1, 4})

\* C13 amended: two storages with different names, each on the database named
\* like it (instances 1 and 3, the setup of the test), do not interfere.
C13_DifferentNames == Isolated({1, 3})

\* storage2 reads 20 after storage, which had held a record, was cleared.
C13_Witness ==
  /\ mounted = "settings2"
  /\ parked.records = {} /\ parked.nextPk = 2
  /\ Cardinality(records) = 1
  /\ \E s \in Slots :
       /\ ops[s].inst = 3 /\ ops[s].kind = "get"
       /\ ops[s].promise = "resolved" /\ ops[s].result = Num(20)

\* An Engine call of the operation in slot s fails in this step.
Fails(s) == OpenError(s) \/ RequestError(s) \/ DeleteDBError(s)

\* C14 as claimed: whenever an Engine call of an operation fails, the
\* operation is rejected with the Engine's error (so no operation whose Engine
\* call failed has reported or will report success).
C14_FailureRejects ==
  [][\A s \in Slots :
       Fails(s) => ops'[s].promise = "rejected" /\ ops'[s].result = EngineError]_vars

\* What the handlers do guarantee: the failure of any request but the add of
\* setItemAsync rejects the operation with the Engine's error.
C14_HandledFailureRejects ==
  [][\A s \in Slots :
       Fails(s) /\ Handled(ops[s].pc) =>
         ops'[s].promise = "rejected" /\ ops'[s].result = EngineError]_vars

\* ------------------------------------------- SpecRace: sets not awaited
\* Operations that may still add a record.
SetsLive ==
  Cardinality({s \in Slots : ops[s].pc \in {"open", "getKey", "cursor", "add"}})

\* storage.value = 10; storage.value2 = 10; ... : set is called again while
\* earlier sets are pending.
CallRace ==
  /\ nextPk + SetsLive <= MaxPk
  /\ \E k \in Keys : Call(1, "set", k, Num(10))
  /\ plan' = plan

InitRace == InitCommon /\ plan = <<>>

NextRace ==
  \/ CallRace
  \/ \E s \in Slots :
       \/ OpenSuccess(s)
       \/ TxComplete(s)
       \/ SetGetKeySuccess(s)
       \/ SetOpenCursorSuccess(s)
       \/ SetAddDone(s)
       \/ SetGetEntrySuccess(s)
       \/ SetPutSuccess(s)

SpecRace == InitRace /\ [][NextRace]_vars

\* A transaction that has run a request and has not completed.
Started(s) == ops[s].pc \in {"cursor", "add", "getEntry", "put", "commit"}

\* C15 as claimed: while a set for a new key has scanned the largest ordinal
\* and its add is not committed, a set for another key issued meanwhile can
\* run its own lookup and scan (and so compute the same next ordinal).
C15_ScansOverlap ==
  \A s, t \in Slots :
    /\ ops[s].kind = "set" /\ ops[s].pc = "add"
    /\ ops[t].kind = "set" /\ ops[t].pc = "getKey"
    /\ ops[t].key # ops[s].key
    => ENABLED SetGetKeySuccess(t)

\* C15 amended: sets issued without awaiting do not race.  At most one of
\* their transactions has started and not completed, so a set scans only when
\* every add before it is committed; the entry a set adds has the ordinal
\* size-of-the-store; no two records ever hold the same ordinal, no set is
\* rejected, and when no transaction is left the ordinals are 0 .. size-1.
C15_SetsSerialised ==
  /\ \A s, t \in Slots : Started(s) /\ Started(t) => s = t
  /\ \A s \in Slots :
       ops[s].pc = "add" => ops[s].entry.index = Cardinality(records)
  /\ \A r, q \in records : r.index = q.index => r = q
  /\ \A s \in Slots : ops[s].promise # "rejected"
  /\ txQueue = <<>> => OrdinalsHeld = 0..(Cardinality(records) - 1)

\* Two sets for different new keys were pending together; the first one's
\* record is stored with ordinal 0 and the second is adding with ordinal 1.
C15_Witness ==
  \E s, t \in Slots :
    /\ ops[s].kind = "set" /\ ops[t].kind = "set"
    /\ ops[s].key # ops[t].key
    /\ Has(records, ops[s].key) /\ Rec(records, ops[s].key).index = 0
    /\ Cardinality(records) = 1
    /\ ops[t].pc = "add" /\ ops[t].entry.index = 1

\* --------------------------- SpecFacade: reads, default values, iteration
FacadeKeys == {"value", "value2"}

\* Values the tests store: a number, undefined, null.
FacadeValues == {Num(4), Undefined, Null}

\* Objects the tests pass to addDefault and setDefault.
Defaults == {("value" :> Num(2)), ("value" :> Num(1)) @@ ("value2" :> Num(2))}

\* Ordinals asked of key(): below, inside and above the store.
Ordinals == (0 - 1)..2

FacadeWrites ==
  {C("set", k, v) : k \in FacadeKeys, v \in FacadeValues}
    \cup {C("remove", k, Undefined) : k \in FacadeKeys}
    \cup {C("clear", "", Undefined)}

FacadeReads ==
  Reads(FacadeKeys, Ordinals) \cup {C("entries", "", Undefined)}

\* A read whose getItemAsync has resolved and whose result is not delivered.
Reading ==
  \E s \in Slots :
    ops[s].kind = "get" /\ ops[s].promise = "resolved" /\ ops[s].out = <<>>

\* The test 'Async: clear storage', with a second key and a set after clear.
ClearScenario ==
  << C("set", "value", Num(4)), C("set", "value2", Num(4)),
     C("clear", "", Undefined), C("set", "value2", Num(4)), Stop >>

\* The caller awaits every call.
CallFacade ==
  /\ plan = <<>>
  /\ ~Pending /\ ~Reading
  /\ \E c \in FacadeWrites \cup FacadeReads :
       /\ c.kind = "set" => nextPk + AddsPending <= MaxPkVal
       /\ Call(1, c.kind, c.key, c.arg)
  /\ plan' = plan

InitFacade ==
  /\ InitCommon
  /\ plan \in {<<>>, ClearScenario}

NextFacade ==
  \/ CallFacade
  \/ CallPlan
  \/ CallPlanRead
  \/ \E obj \in Defaults : AddDefault(1, obj)
  \/ \E obj \in Defaults : SetDefault(1, obj)
  \/ ClearDefault(1)
  \/ \E s \in Slots :
       \/ OpenSuccess(s)
       \/ TxComplete(s)
       \/ GetKeySuccess(s)
       \/ GetValueSuccess(s)
       \/ FacadeRead(s)
       \/ SetGetKeySuccess(s)
       \/ SetOpenCursorSuccess(s)
       \/ SetAddDone(s)
       \/ SetGetEntrySuccess(s)
       \/ SetPutSuccess(s)
       \/ RemoveGetKeySuccess(s)
       \/ RemoveDeleteSuccess(s)
       \/ RemoveCursorSuccess(s)
       \/ ClearSuccess(s)
       \/ CountSuccess(s)
       \/ KeyGetKeySuccess(s)
       \/ KeyGetEntrySuccess(s)
       \/ EntriesScan(s)

SpecFacade == InitFacade /\ [][NextFacade]_vars

\* The value the store holds for key, undefined when it has no record.
Stored(key) == IF Has(records, key) THEN Rec(records, key).value ELSE Undefined

\* C16: a read of key k delivers the default value of k (undefined when
\* there is none) exactly when k has no record or its stored value is
\* undefined; any other stored value, null included, is delivered as it is.
C16_OverlayConsulted ==
  [][\A s \in Slots :
       FacadeRead(s) =>
         ops'[s].out =
           <<IF Stored(ops[s].key) = Undefined
             THEN DefaultOf(ops[s].inst, ops[s].key)
             ELSE Stored(ops[s].key)>>]_vars

\* The key has a record whose value is undefined and the read delivered the
\* default value.
C16_Witness ==
  \E s \in Slots :
    /\ ops[s].kind = "get" /\ ops[s].out # <<>>
    /\ Has(records, ops[s].key)
    /\ Rec(records, ops[s].key).value = Undefined
    /\ DefaultOf(1, ops[s].key) # Undefined
    /\ ops[s].out = <<DefaultOf(1, ops[s].key)>>

\* C17: a resolved clear has deleted every record; while nothing has been set
\* since, size is 0 and get and key are undefined for every key and ordinal;
\* and a set of a new key into the emptied store gets ordinal 0 (the scripted
\* run ends with the one record value2 at ordinal 0 under primary key 3).
C17_ClearEmpties ==
  /\ \A s \in Slots : Ran(s, "clear") => records = {}
  /\ \A s \in Slots :
       order = <<>> /\ ops[s].promise = "resolved" =>
         /\ ops[s].kind = "size" => ops[s].result = Num(0)
         /\ ops[s].kind = "get" => ops[s].result = Undefined
         /\ ops[s].kind = "key" => ops[s].result = Undefined
  /\ \A s \in Slots :
       Ran(s, "set") /\ ops[s].undo = {} =>
         records = {[pk |-> nextPk - 1, index |-> 0, key |-> ops[s].key,
                     value |-> expect[ops[s].key]]}
  /\ plan = <<Stop>> /\ Settled =>
       records = {[pk |-> 3, index |-> 0, key |-> "value2", value |-> Num(4)]}

\* The scripted run is over: two records were stored, clear has emptied the
\* store and the set after it has stored its record at ordinal 0.
C17_Witness ==
  /\ plan = <<Stop>>
  /\ Settled
  /\ \E r \in records : r.pk = 3 /\ r.index = 0

\* C18: a resolved entries has yielded as many pairs as there are records
\* (what size counts), in ascending ordinal order, which is the order the live
\* keys were created in; the i-th pair is the key key(i-1) finds and the value
\* stored for it, as the store is when entries is called.
C18_EntriesInOrder ==
  \A s \in Slots :
    ops[s].kind = "entries" /\ ops[s].promise = "resolved" =>
      /\ Len(ops[s].out) = Cardinality(records)
      /\ Len(ops[s].out) = Len(order)
      /\ \A i \in 1..Len(ops[s].out) :
           /\ ops[s].out[i][1] = order[i]
           /\ IndexesGetKey(i - 1) # 0
           /\ StoreGet(IndexesGetKey(i - 1)).key = ops[s].out[i][1]
           /\ StoreGet(IndexesGetKey(i - 1)).value = ops[s].out[i][2]

\* entries after the first of two keys was removed: one pair, of the key
\* stored second, now at ordinal 0.
C18_Witness ==
  \E s \in Slots :
    /\ ops[s].kind = "entries" /\ ops[s].promise = "resolved"
    /\ Len(ops[s].out) = 1
    /\ \E r \in records : r.pk = 2 /\ r.index = 0 /\ r.key = ops[s].out[1][1]

\* C19: a resolved key(i) has returned the key of the record with ordinal i,
\* which is the i-th live key in creation order (so different ordinals below
\* the size give different keys), and undefined when i is negative or not
\* below the size.
C19_KeyAtOrdinal ==
  \A s \in Slots :
    ops[s].kind = "key" /\ ops[s].promise = "resolved" =>
      LET i == ops[s].arg.n
      IN IF 0 <= i /\ i < Len(order)
         THEN /\ ops[s].result = Str(order[i + 1])
              /\ Has(records, order[i + 1])
              /\ Rec(records, order[i + 1]).index = i
              /\ i < Cardinality(records)
         ELSE /\ ops[s].result = Undefined
              /\ i < 0 \/ i >= Cardinality(records)

\* key(0) has returned the key stored second, the first having been removed.
C19_Witness ==
  \E s \in Slots :
    /\ ops[s].kind = "key" /\ ops[s].promise = "resolved"
    /\ ops[s].arg = Num(0)
    /\ \E r \in records : r.pk = 2 /\ r.index = 0 /\ ops[s].result = Str(r.key)

\* C20: a resolved size has returned the number of records, which is the
\* number of keys set and not removed since the last clear: a key whose
\* stored value is undefined is counted, a key that only has a default value
\* is not.
C20_SizeCountsRecords ==
  \A s \in Slots :
    ops[s].kind = "size" /\ ops[s].promise = "resolved" =>
      /\ ops[s].result = Num(Cardinality(records))
      /\ ops[s].result = Num(Len(order))
      /\ ops[s].result = Num(Cardinality({k \in AllKeys : Has(records, k)}))

\* size is 1 while the one record holds undefined and another key has only a
\* default value.
C20_Witness ==
  \E s \in Slots :
    /\ ops[s].kind = "size" /\ ops[s].promise = "resolved"
    /\ ops[s].result = Num(1)
    /\ \E r \in records : r.value = Undefined
    /\ \E k \in DOMAIN overlay[1] : ~Has(records, k)

\* ------------------------- SpecOverlay: default values and two instances
\* Keys read in the tests of the default methods.
OverlayKeys == {"value", "value2", "other"}

\* Objects the README example and the tests pass to addDefault and setDefault.
OverlayObjects ==
  { ("value" :> Num(9)) @@ ("other" :> Num(3)),
    ("value" :> Num(1)) @@ ("value2" :> Num(2)),
    ("value" :> Num(42)) }

OverlayCalls ==
  {C("set", k, v) : k \in FacadeKeys, v \in {Num(4), Undefined}}
    \cup {C("get", k, Undefined) : k \in OverlayKeys}
    \cup {C("size", "", Undefined)}

\* The first instance writes and reads; the second, created over the same
\* store, only reads.  Every call is awaited.
CallOverlay ==
  /\ ~Pending /\ ~Reading
  /\ \E c \in OverlayCalls, i \in Instances :
       /\ c.kind = "set" => i = 1 /\ nextPk + AddsPending <= MaxPkVal
       /\ Call(i, c.kind, c.key, c.arg)
  /\ plan' = plan

InitOverlay == InitCommon /\ plan = <<>>

NextOverlay ==
  \/ CallOverlay
  \/ \E obj \in OverlayObjects : AddDefault(1, obj)
  \/ \E obj \in OverlayObjects : SetDefault(1, obj)
  \/ ClearDefault(1)
  \/ \E s \in Slots :
       \/ OpenSuccess(s)
       \/ TxComplete(s)
       \/ GetKeySuccess(s)
       \/ GetValueSuccess(s)
       \/ FacadeRead(s)
       \/ SetGetKeySuccess(s)
       \/ SetOpenCursorSuccess(s)
       \/ SetAddDone(s)
       \/ SetGetEntrySuccess(s)
       \/ SetPutSuccess(s)
       \/ CountSuccess(s)

SpecOverlay == InitOverlay /\ [][NextOverlay]_vars

\* C21: a step that changes the default values of an instance makes no Engine
\* call and leaves the records (with their ordinals, hence the size), the key
\* generator and every operation as they were; the second instance, created
\* over the same store, has no default values whatever those of the first
\* are, so each of its reads delivers the stored value, undefined when the key
\* has no record.
C21_OverlayNotPersisted ==
  /\ GetDefault(2) = <<>>
  /\ [][/\ overlay' # overlay =>
             /\ UNCHANGED <<engine, mounted, parked, ops, txQueue, isDeleted>>
             /\ GetDefault(2)' = GetDefault(2)
        /\ \A s \in Slots :
             FacadeRead(s) /\ ops[s].inst = 2 =>
               ops'[s].out = <<Stored(ops[s].key)>>]_vars

\* The second instance has read a key that has no record and a default value
\* in the first instance, and undefined was delivered.
C21_Witness ==
  \E s \in Slots :
    /\ ops[s].kind = "get" /\ ops[s].inst = 2
    /\ ops[s].out = <<Undefined>>
    /\ ops[s].key \in DOMAIN GetDefault(1)
    /\ ~Has(records, ops[s].key)
    /\ records # {}

\* C22: addDefault(obj) merges obj into the default values: afterwards every
\* key of obj has obj's value, whatever default it had before, every other
\* key that had a default value keeps it, and no other key has one.
C22_AddDefaultMerges ==
  [][\A obj \in OverlayObjects :
       AddDefault(1, obj) =>
         /\ DOMAIN GetDefault(1)' = DOMAIN GetDefault(1) \cup DOMAIN obj
         /\ \A k \in DOMAIN obj : GetDefault(1)'[k] = obj[k]
         /\ \A k \in DOMAIN GetDefault(1) \ DOMAIN obj :
              GetDefault(1)'[k] = GetDefault(1)[k]]_vars

\* addDefault({value: 9, other: 3}) and then addDefault({value: 1, value2: 2})
\* have given {value: 1, value2: 2, other: 3}.
C22_Witness ==
  GetDefault(1) =
    ("value" :> Num(1)) @@ ("value2" :> Num(2)) @@ ("other" :> Num(3))

\* C23: setDefault(obj) leaves exactly obj's pairs as the default values and
\* clearDefault() leaves none; a read of a key that has no default value and
\* no stored value (no record, or undefined stored) delivers undefined.
C23_SetAndClearDefault ==
  [][/\ \A obj \in OverlayObjects :
          SetDefault(1, obj) => GetDefault(1)' = obj
     /\ ClearDefault(1) => DOMAIN GetDefault(1)' = {}
     /\ \A s \in Slots :
          /\ FacadeRead(s) /\ ops[s].inst = 1
          /\ ops[s].key \notin DOMAIN GetDefault(1)
          /\ Stored(ops[s].key) = Undefined
          => ops'[s].out = <<Undefined>>]_vars

\* After setDefault({value: 42}) a read of 'other' has delivered undefined
\* and the store holds a record.
C23_Witness ==
  /\ GetDefault(1) = ("value" :> Num(42))
  /\ records # {}
  /\ \E s \in Slots :
       /\ ops[s].kind = "get" /\ ops[s].inst = 1 /\ ops[s].key = "other"
       /\ ops[s].out = <<Undefined>>

\* --------------------------------- SpecCase: keys that differ in case only
CaseKeys == {"value", "Value"}

\* The test 'Async: case-sensitive', the reads being calls of their own.
CaseScenario ==
  << C("set", "value", Num(20)), C("get", "Value", Undefined),
     C("set", "Value", Num(30)), C("get", "value", Undefined), Stop >>

CaseCalls ==
  {C("set", k, v) : k \in CaseKeys, v \in {Num(20), Num(30)}}
    \cup {C("get", k, Undefined) : k \in CaseKeys}
    \cup {C("remove", k, Undefined) : k \in CaseKeys}

\* The caller awaits every call.
CallCase ==
  /\ plan = <<>>
  /\ ~Pending
  /\ \E c \in CaseCalls :
       /\ c.kind = "set" => nextPk + AddsPending <= MaxPkVal
       /\ Call(1, c.kind, c.key, c.arg)
  /\ plan' = plan

InitCase ==
  /\ InitCommon
  /\ plan \in {<<>>, CaseScenario}

NextCase ==
  \/ CallCase
  \/ CallPlan
  \/ \E s \in Slots :
       \/ OpenSuccess(s)
       \/ TxComplete(s)
       \/ GetKeySuccess(s)
       \/ GetValueSuccess(s)
       \/ SetGetKeySuccess(s)
       \/ SetOpenCursorSuccess(s)
       \/ SetAddDone(s)
       \/ SetGetEntrySuccess(s)
       \/ SetPutSuccess(s)
       \/ RemoveGetKeySuccess(s)
       \/ RemoveDeleteSuccess(s)
       \/ RemoveCursorSuccess(s)

SpecCase == InitCase /\ [][NextCase]_vars

\* C24: keys are told apart by exact equality.  A resolved get has returned
\* the value of the record whose key is exactly the one asked for, undefined
\* when there is none; a set that has been carried out has left the record of
\* the key that differs in case as it was and stored its value under its own
\* key; in the scripted test get('Value') after set('value', 20) is undefined,
\* and after set('Value', 30) there are two records and get('value') is 20.
C24_CaseSensitive ==
  /\ \A s \in Slots :
       ops[s].kind = "get" /\ ops[s].promise = "resolved" =>
         ops[s].result = Stored(ops[s].key)
  /\ \A s \in Slots :
       Ran(s, "set") =>
         /\ \A r \in ops[s].undo : r.key # ops[s].key => r \in records
         /\ Stored(ops[s].key) = ops[s].arg
         /\ Cardinality({r \in records : r.key = ops[s].key}) = 1
  /\ \A s \in Slots :
       /\ Len(plan) = 3 /\ ops[s].kind = "get" /\ ops[s].promise = "resolved"
       => ops[s].key = "Value" /\ ops[s].result = Undefined
  /\ \A s \in Slots :
       /\ plan = <<Stop>> /\ ops[s].kind = "get" /\ ops[s].promise = "resolved"
       => /\ ops[s].key = "value" /\ ops[s].result = Num(20)
          /\ Cardinality(records) = 2
          /\ Stored("Value") = Num(30)

\* The scripted test has run: 'value' reads 20 while 'Value' holds 30 in a
\* record of its own.
C24_Witness ==
  /\ plan = <<Stop>>
  /\ \E s \in Slots :
       /\ ops[s].kind = "get" /\ ops[s].key = "value"
       /\ ops[s].promise = "resolved" /\ ops[s].result = Num(20)
  /\ \E r, q \in records :
       /\ r.key = "value" /\ q.key = "Value" /\ r.pk # q.pk
       /\ q.value = Num(30)

\* Primary-key order and ordinal order agree on the records rs.
PkOrderIsOrdinalOrder(rs) ==
  \A a, b \in rs : a.pk < b.pk <=> a.index < b.index

\* C25: the store every transaction finds has its primary keys in the order
\* of its ordinals.  While a remove compacts, the records above the removed
\* primary key are exactly those whose ordinal was above the removed one; the
\* ones the cursor has passed hold their ordinal minus one, the others hold
\* their ordinal still; the record the cursor is on is the one with the
\* smallest ordinal not yet rewritten, so ordinals are visited in ascending
\* order from the removed ordinal + 1, and the ordinal it is given is held by
\* no other record.  No operation is rejected by the uniqueness constraint.
C25_CompactionOrder ==
  /\ \A s \in Slots : ops[s].result # ConstraintError
  /\ (\A s \in Slots : ops[s].pc # "compact") => PkOrderIsOrdinalOrder(records)
  /\ \A s \in Slots :
       ops[s].kind = "remove" /\ ops[s].pc = "compact" =>
         LET gone == Rec(ops[s].undo, ops[s].key)
             passed == {q \in records : gone.pk < q.pk /\ q.pk < ops[s].pk}
             ahead == {q \in records : q.pk >= ops[s].pk}
             cur == CursorAt(ops[s].pk)
         IN /\ PkOrderIsOrdinalOrder(ops[s].undo)
            /\ {q.pk : q \in passed \cup ahead}
                 = {q.pk : q \in {u \in ops[s].undo : u.index > gone.index}}
            /\ \A q \in records :
                 \E u \in ops[s].undo :
                   /\ u.pk = q.pk /\ u.key = q.key
                   /\ q.index = IF q \in passed THEN u.index - 1 ELSE u.index
            /\ cur # 0 =>
                 /\ StoreGet(cur).index = gone.index + 1 + Cardinality(passed)
                 /\ \A q \in ahead : StoreGet(cur).index <= q.index
                 /\ Unique(Shifted(StoreGet(cur)), cur)

\* A remove, in a store whose first primary key is no longer 1, has rewritten
\* one record and its cursor is on the next.
C25_Witness ==
  \E s \in Slots :
    /\ ops[s].kind = "remove" /\ ops[s].pc = "compact"
    /\ Rec(ops[s].undo, ops[s].key).pk > 1
    /\ \E q \in records : Rec(ops[s].undo, ops[s].key).pk < q.pk /\ q.pk < ops[s].pk
    /\ CursorAt(ops[s].pk) # 0

\* The connection of the operation in slot s is closed, or db.close() has
\* been called on it and its transaction has no request left to carry out.
Released(s) == ops[s].pc \in {"done", "commit"}

\* C26 as claimed: an operation whose result has been reported has released
\* its access to the store, and whenever no writing transaction is under way
\* the store is whole (ordinals 0 .. size-1, one record per key, primary keys
\* in ordinal order), whichever requests have failed.
C26_AtomicAndReleased ==
  /\ \A s \in Slots :
       ops[s].promise \in {"resolved", "rejected"} => Released(s)
  /\ ~WriteLive =>
       /\ OrdinalsHeld = 0..(Cardinality(records) - 1)
       /\ \A a, b \in records : a.key = b.key => a = b
       /\ PkOrderIsOrdinalOrder(records)

\* What the Engine's rollback does guarantee: whenever no writing transaction
\* is under way the store is whole, whichever requests have failed.
C26_RolledBack ==
  ~WriteLive =>
    /\ OrdinalsHeld = 0..(Cardinality(records) - 1)
    /\ \A a, b \in records : a.key = b.key => a = b
    /\ PkOrderIsOrdinalOrder(records)

\* ------------------------- SpecSettle: every request is answered in the end
\* An instance whose store name was never created in its database calls a
\* method.
CallSameLocation ==
  /\ ~Pending
  /\ \E c \in FailCalls :
       /\ c.kind = "set" => nextPk + AddsPending <= MaxPkVal
       /\ Call(4, c.kind, c.key, c.arg)
  /\ plan' = plan

\* The Engine answers a request of the operation in slot s, with success or
\* with an error, or fires an event of its transaction or connection.
Answer(s) ==
  \/ OpenSuccess(s)
  \/ OpenError(s)
  \/ RequestError(s)
  \/ ConnectionCollected(s)
  \/ TxComplete(s)
  \/ GetKeySuccess(s)
  \/ GetValueSuccess(s)
  \/ SetGetKeySuccess(s)
  \/ SetOpenCursorSuccess(s)
  \/ SetAddDone(s)
  \/ SetGetEntrySuccess(s)
  \/ SetPutSuccess(s)
  \/ RemoveGetKeySuccess(s)
  \/ RemoveDeleteSuccess(s)
  \/ RemoveCursorSuccess(s)
  \/ ClearSuccess(s)
  \/ CountSuccess(s)
  \/ KeyGetKeySuccess(s)
  \/ KeyGetEntrySuccess(s)
  \/ DeleteDBSuccess(s)
  \/ DeleteDBError(s)

NextSettle ==
  \/ CallFail
  \/ CallSameLocation
  \/ \E s \in Slots : Answer(s)

\* The Engine leaves no request unanswered.
SpecSettle ==
  /\ InitFail
  /\ [][NextSettle]_vars
  /\ \A s \in Slots : WF_vars(Answer(s))

\* C27 as claimed: every call that has been made is eventually resolved or
\* rejected.
C27_EventuallySettles ==
  \A s \in Slots :
    (ops[s].promise = "pending") ~> (ops[s].promise # "pending")

\* What does hold: a call is eventually resolved or rejected unless its
\* database turns out not to hold the object store it names.
C27_SettlesOrStuck ==
  \A s \in Slots :
    (ops[s].promise = "pending")
      ~> (ops[s].promise # "pending" \/ ops[s].pc = "stuck")

=============================================================================
